---------------------------- MODULE Spec2Model ----------------------------
(***************************************************************************)
(* A model of deepeval's Scorer (src/deepeval/scorer/scorer.py): a class   *)
(* of independent classmethods, each of which validates its discrete       *)
(* arguments, promotes a lone string to a one-element list, imports and    *)
(* constructs an external backend, delegates to it and returns its result. *)
(*                                                                         *)
(* A behaviour is a sequence of calls.  One action models one whole call   *)
(* of one classmethod; what the call did to the outside world (warnings    *)
(* printed, backends constructed, tokenizer and scorer calls, with their   *)
(* arguments) is recorded in `events`, and how it ended in `outcome`.      *)
(* The external libraries are opaque: what they reply is an input of the   *)
(* call, drawn from a small set.  An error raised inside a library (out of *)
(* memory, a failed download, arguments it refuses) would pass through the *)
(* call unchanged; the model does not enumerate those.                     *)
(***************************************************************************)
EXTENDS Integers, Sequences, FiniteSets, TLC

VARIABLES
    pc,            \* "idle": no call in progress; "returned": a call has just ended
    op,            \* the classmethod called last ("none" when idle)
    input,         \* its arguments, and what the environment answered during it
    events,        \* what the call did outside itself, in order
    outcome,       \* how the call ended: a returned value or a raised error
    nCalls,        \* calls made so far
    nConstructed,  \* backend instances constructed so far, over all calls
    nAcquired      \* calls so far that invoked a backend constructor

vars == <<pc, op, input, events, outcome, nCalls, nConstructed, nAcquired>>

---------------------------------------------------------------------------
(* Bounds of the model. *)

\* Longest list of strings passed for a string-or-list parameter.
MaxLen == 2

\* Longest string (in characters) passed to the two match scores.
MaxStrLen == 2

\* Calls in one behaviour.
MaxCalls == 2

---------------------------------------------------------------------------
(* Python values. *)

\* The texts handed to the library-backed scores; the libraries treat them
\* as opaque, so two distinct ones are enough to tell arguments apart.
Texts == {"t1", "t2"}

\* All sequences over S of length at most n.
SeqUpTo(S, n) == UNION {[1..k -> S] : k \in 0..n}

\* A str, a list of str, and the one-element list holding a list of str.
Str(s) == [t |-> "str", v |-> <<s>>]
List(l) == [t |-> "list", v |-> l]
Nested(l) == [t |-> "nested", v |-> l]

\* The values a Union[str, List[str]] parameter takes.
StrOrList == {Str(s) : s \in Texts} \cup {List(l) : l \in SeqUpTo(Texts, MaxLen)}

\* isinstance(x, str)
IsStr(x) == x.t = "str"

\* len(x) of a list value.
PyLen(x) == IF x.t = "nested" THEN 1 ELSE Len(x.v)

\* `[x] if isinstance(x, str) else x`, mutated: the promotion is forgotten.
PromoteForgotten(x) == x

\* `[x] if isinstance(x, str) else x`
Promote(x) == IF IsStr(x) THEN List(<<x.v[1]>>) ELSE x

---------------------------------------------------------------------------
(* Outcomes and events of a call. *)

Return(v) == [kind |-> "return", val |-> v, err |-> "none"]
Raise(e) == [kind |-> "raise", val |-> 0, err |-> e]
NoOutcome == [kind |-> "none", val |-> 0, err |-> "none"]

\* One thing a call did outside itself.  kind: "warn" (a message printed),
\* "construct" (a backend instance h created), "tokenize", "embed", "score"
\* (a library function or a method of instance h called with args, answering
\* reply).  h = 0: a library function, no instance.
Ev(kind, backend, h, args, weights, reply) ==
    [kind |-> kind, backend |-> backend, h |-> h, args |-> args,
     weights |-> weights, reply |-> reply]

Warn == Ev("warn", "print", 0, <<>>, <<>>, <<>>)

\* What a classmethod call amounts to.
Result(evs, out, acq) == [events |-> evs, outcome |-> out, acquired |-> acq]

\* `scorer = Backend(...)`, mutated: an instance constructed by an earlier
\* call is kept and handed out again.
CachedBackend(cls, cfg, n) ==
    IF n = 0
    THEN [handle |-> 1, events |-> <<Ev("construct", cls, 1, cfg, <<>>, <<>>)>>]
    ELSE [handle |-> n, events |-> <<>>]

\* `scorer = Backend(...)`: a constructor call, which makes a new instance
\* (the n+1st ever made) bound to a local variable of the call.
NewBackend(cls, cfg, n) ==
    [handle |-> n + 1, events |-> <<Ev("construct", cls, n + 1, cfg, <<>>, <<>>)>>]

---------------------------------------------------------------------------
(* The lexical scores: exact and quasi-exact match. *)

\* The characters the matched strings are made of: a lower-case and an
\* upper-case letter, a whitespace character and a punctuation mark.
Alphabet == {"a", "A", " ", "."}

IsSpace(c) == c = " "
IsPunct(c) == c = "."

\* The strings passed as target and prediction of the match scores.
Strings == SeqUpTo(Alphabet, MaxStrLen)

RECURSIVE LStrip(_)
\* str.lstrip(): leading whitespace removed.
LStrip(s) == IF s # <<>> /\ IsSpace(Head(s)) THEN LStrip(Tail(s)) ELSE s

RECURSIVE RStrip(_)
\* str.rstrip(): trailing whitespace removed.
RStrip(s) ==
    IF s # <<>> /\ IsSpace(s[Len(s)]) THEN RStrip(SubSeq(s, 1, Len(s) - 1)) ELSE s

\* str.strip()
Strip(s) == RStrip(LStrip(s))

\* str.lower() on one character.
Lower(c) == IF c = "A" THEN "a" ELSE c

RECURSIVE DropPunct(_)
\* Punctuation stripped.
DropPunct(s) ==
    IF s = <<>> THEN <<>>
    ELSE IF IsPunct(Head(s)) THEN DropPunct(Tail(s))
    ELSE <<Head(s)>> \o DropPunct(Tail(s))

RECURSIVE Collapse(_)
\* Every run of whitespace collapsed into one space.
Collapse(s) ==
    IF Len(s) < 2 THEN s
    ELSE IF IsSpace(s[1]) /\ IsSpace(s[2]) THEN Collapse(Tail(s))
    ELSE <<Head(s)>> \o Collapse(Tail(s))

\* deepeval.utils.normalize_text: case-folded, punctuation-stripped,
\* whitespace-collapsed.
normalize_text(s) == Collapse(DropPunct([i \in 1..Len(s) |-> Lower(s[i])]))

\* exact_match_score, mutated: the target is compared untrimmed.
exact_match_score_untrimmed(target, prediction) ==
    IF prediction = <<>> THEN Result(<<>>, Return(0), FALSE)
    ELSE Result(<<>>, Return(IF Strip(prediction) = target THEN 1 ELSE 0), FALSE)

\* Scorer.exact_match_score
exact_match_score(target, prediction) ==
    IF prediction = <<>> THEN Result(<<>>, Return(0), FALSE)
    ELSE Result(<<>>,
                Return(IF Strip(prediction) = Strip(target) THEN 1 ELSE 0),
                FALSE)

\* quasi_exact_match_score, mutated: the strings are trimmed, as in
\* exact_match_score, instead of normalized.
quasi_exact_match_score_trimmed(target, prediction) ==
    exact_match_score(target, prediction)

\* Scorer.quasi_exact_match_score
quasi_exact_match_score(target, prediction) ==
    IF prediction = <<>> THEN Result(<<>>, Return(0), FALSE)
    ELSE Result(<<>>,
                Return(IF normalize_text(target) = normalize_text(prediction)
                       THEN 1 ELSE 0),
                FALSE)

---------------------------------------------------------------------------
(* The environment: optional imports and backend replies. *)

\* How an import statement inside a call ends: it succeeds, the module is
\* not found, it is found but the name cannot be imported from it, or
\* executing the module raises something that is no ImportError.
ImportOutcomes == {"ok", "ModuleNotFoundError", "ImportError", "OSError"}

\* Whether `except <handler>` catches err (ModuleNotFoundError is a subclass
\* of ImportError, which is a subclass of Exception).
Catches(handler, err) ==
    CASE handler = "ModuleNotFoundError" -> err = "ModuleNotFoundError"
      [] handler = "ImportError" -> err \in {"ModuleNotFoundError", "ImportError"}
      [] handler = "Exception" -> TRUE

\* try/except around an import, mutated: the failure is raised again after
\* the message (fail fast).
TryImportFailFast(imp, handler) ==
    IF imp = "ok" THEN [events |-> <<>>, raised |-> "none", bound |-> TRUE]
    ELSE IF Catches(handler, imp)
    THEN [events |-> <<Warn>>, raised |-> imp, bound |-> FALSE]
    ELSE [events |-> <<>>, raised |-> imp, bound |-> FALSE]

\* `try: from m import B / except <handler> as e: print(...)`.  A caught
\* failure prints a message and goes on with B unbound; one the handler
\* does not catch is raised.
TryImport(imp, handler) ==
    IF imp = "ok" THEN [events |-> <<>>, raised |-> "none", bound |-> TRUE]
    ELSE IF Catches(handler, imp)
    THEN [events |-> <<Warn>>, raised |-> "none", bound |-> FALSE]
    ELSE [events |-> <<>>, raised |-> imp, bound |-> FALSE]

\* The scores a backend may answer.  Their range is the backend's own and
\* is not [0,1] in general.
BackendScores == {-1, 0, 1, 2}

\* What BERTScorer.score answers: precision, recall and F1.
BertReplies == {<<0, 1, 0>>, <<1, 1, 1>>}

\* The `model` argument: left out, or a model name.
ModelNames == {"None", "m1"}

---------------------------------------------------------------------------
(* ROUGE and BLEU. *)

RougeTypes == {"rouge1", "rouge2", "rougeL"}
BleuTypes == {"bleu1", "bleu2", "bleu3", "bleu4"}

\* bleu_weight_map
bleu_weight_map(bleu_type) ==
    CASE bleu_type = "bleu1" -> <<1, 0, 0, 0>>
      [] bleu_type = "bleu2" -> <<0, 1, 0, 0>>
      [] bleu_type = "bleu3" -> <<0, 0, 1, 0>>
      [] bleu_type = "bleu4" -> <<0, 0, 0, 1>>

\* rouge_score, mutated: the scorer is constructed before score_type is
\* checked.
rouge_score_late_check(target, prediction, score_type, reply, n) ==
    LET b == NewBackend("RougeScorer", <<Str(score_type)>>, n) IN
    IF score_type \notin RougeTypes
    THEN Result(b.events, Raise("AssertionError"), TRUE)
    ELSE Result(b.events \o <<Ev("score", "RougeScorer", b.handle,
                                 <<Str(target), Str(prediction)>>, <<>>, reply)>>,
                Return(reply[1]), TRUE)

\* Scorer.rouge_score
rouge_score(target, prediction, score_type, reply, n) ==
    IF score_type \notin RougeTypes
    THEN Result(<<>>, Raise("AssertionError"), FALSE)
    ELSE LET b == NewBackend("RougeScorer", <<Str(score_type)>>, n) IN
         Result(b.events \o <<Ev("score", "RougeScorer", b.handle,
                                 <<Str(target), Str(prediction)>>, <<>>, reply)>>,
                Return(reply[1]), TRUE)

\* word_tokenize(s): one tokenizer call on s.
Tokenize(s) == Ev("tokenize", "word_tokenize", 0, <<Str(s)>>, <<>>, <<>>)

\* Scorer.sentence_bleu_score
sentence_bleu_score(references, prediction, bleu_type, reply) ==
    IF bleu_type \notin BleuTypes
    THEN Result(<<>>, Raise("AssertionError"), FALSE)
    ELSE LET targets == Promote(references) IN
         Result([k \in 1..Len(targets.v) |-> Tokenize(targets.v[k])]
                \o <<Tokenize(prediction)>>
                \o <<Ev("score", "sentence_bleu", 0,
                        <<[t |-> IF IsStr(targets) THEN "tokens" ELSE "token lists",
                           v |-> targets.v],
                          [t |-> "tokens", v |-> <<prediction>>]>>,
                        bleu_weight_map(bleu_type), reply)>>,
                Return(reply[1]), FALSE)

---------------------------------------------------------------------------
(* The model-based scores. *)

\* A call that ends at its import: nothing was done outside it.
ImportRaised(i) == Result(<<>>, Raise(i.raised), FALSE)

\* A call that goes on after a caught import failure and evaluates the
\* name of the backend class, a local variable never bound.
Unbound(i) == Result(i.events, Raise("UnboundLocalError"), FALSE)

\* The `model` argument of bert_score with its default.
BertModel(model) == IF model = "None" THEN "microsoft/deberta-large-mnli" ELSE model

\* The mapping bert_score returns.
BertShape(reply) ==
    [bert_precision |-> reply[1], bert_recall |-> reply[2], bert_f1 |-> reply[3]]

\* Scorer.bert_score
bert_score(references, predictions, model, imp, cuda, reply, n) ==
    LET i == TryImport(imp, "ModuleNotFoundError")
        device == IF cuda THEN "cuda" ELSE "cpu"
        b == NewBackend("BERTScorer", <<Str(BertModel(model)), Str("en"), Str(device)>>, n)
        preds == Promote(predictions)
        refs0 == Promote(references)
        bothLists == preds.t = "list" /\ refs0.t = "list"
        refs == IF bothLists /\ PyLen(preds) # PyLen(refs0)
                THEN Nested(refs0.v) ELSE refs0
    IN  IF i.raised # "none" THEN ImportRaised(i)
        ELSE IF ~i.bound THEN Unbound(i)
        ELSE IF bothLists /\ PyLen(refs0) = 0
        THEN Result(i.events \o b.events, Raise("IndexError"), TRUE)
        ELSE Result(i.events \o b.events
                    \o <<Ev("score", "BERTScorer", b.handle, <<preds, refs>>, <<>>, reply)>>,
                    Return(BertShape(reply)), TRUE)

\* Scorer.faithfulness_score
faithfulness_score(target, prediction, model, imp, reply, n) ==
    LET i == TryImport(imp, "Exception")
        b == NewBackend("SummaCModels", <<Str(model), Str("None"), Str("None")>>, n)
    IN  IF i.raised # "none" THEN ImportRaised(i)
        ELSE IF ~i.bound THEN Unbound(i)
        ELSE Result(i.events \o b.events
                    \o <<Ev("score", "SummaCModels", b.handle,
                            <<Str(target), Str(prediction)>>, <<>>, reply)>>,
                    Return(reply[1]), TRUE)

\* Scorer.hallucination_score
hallucination_score(source, prediction, model, imp, reply, n) ==
    LET i == TryImport(imp, "ImportError")
        b == NewBackend("HallucinationModel", <<Str(model)>>, n)
    IN  IF i.raised # "none" THEN ImportRaised(i)
        ELSE IF ~i.bound THEN Unbound(i)
        ELSE Result(i.events \o b.events
                    \o <<Ev("score", "HallucinationModel", b.handle,
                            <<List(<<source, prediction>>)>>, <<>>, reply)>>,
                    Return(reply[1]), TRUE)

\* Scorer.PII_score
PII_score == Result(<<>>, Raise("NotImplementedError"), FALSE)

\* Scorer.neural_toxic_score
neural_toxic_score(prediction, model, imp, reply, n) ==
    LET i == TryImport(imp, "ImportError")
        b == NewBackend("DetoxifyModel", <<Str(model)>>, n)
    IN  IF i.raised # "none" THEN ImportRaised(i)
        ELSE IF ~i.bound THEN Unbound(i)
        ELSE Result(i.events \o b.events
                    \o <<Ev("score", "DetoxifyModel", b.handle,
                            <<Str(prediction)>>, <<>>, reply)>>,
                    Return(reply[1]), TRUE)

\* Scorer.neural_bias_score
neural_bias_score(text, model, imp, reply, n) ==
    LET i == TryImport(imp, "Exception")
        b == NewBackend("UnBiasedModel", <<Str(model)>>, n)
    IN  IF i.raised # "none" THEN ImportRaised(i)
        ELSE IF ~i.bound THEN Unbound(i)
        ELSE Result(i.events \o b.events
                    \o <<Ev("score", "UnBiasedModel", b.handle,
                            <<Str(text)>>, <<>>, reply)>>,
                    Return(reply[1]), TRUE)

RECURSIVE MaxFrom(_, _, _)
\* The loop of factual_consistency_score from its k-th round on:
\* max_score = max(max_score, score) for each remaining score.
MaxFrom(scores, k, max_score) ==
    IF k > Len(scores) THEN max_score
    ELSE MaxFrom(scores, k + 1, IF scores[k] > max_score THEN scores[k] ELSE max_score)

\* Scorer.factual_consistency_score.  replies[k] is what scorer.predict
\* answers for the k-th context.
factual_consistency_score(contexts, prediction, model, imp, replies, n) ==
    LET i == TryImport(imp, "Exception")
        b == NewBackend("FactualConsistencyModel", <<Str(model)>>, n)
        ctxs == Promote(contexts)
    IN  IF i.raised # "none" THEN ImportRaised(i)
        ELSE IF ~i.bound THEN Unbound(i)
        ELSE Result(i.events \o b.events
                    \o [k \in 1..Len(ctxs.v) |->
                          Ev("score", "FactualConsistencyModel", b.handle,
                             <<Str(ctxs.v[k]), Str(prediction)>>, <<>>, <<replies[k]>>)],
                    Return(MaxFrom(replies, 1, 0)), TRUE)

\* The model_type argument: left out, one of the two supported, or another.
ModelTypes == {"None", "self_encoder", "cross_encoder", "bi_encoder"}

\* The default of model_type, mutated: self_encoder instead of cross_encoder.
DefaultModelTypeSelf(model_type) ==
    IF model_type = "None" THEN "self_encoder" ELSE model_type

\* `model_type = "cross_encoder" if model_type is None else model_type`
DefaultModelType(model_type) ==
    IF model_type = "None" THEN "cross_encoder" ELSE model_type

\* Scorer.answer_relevancy_score.  impUtil: how the import of
\* sentence_transformers.util ends, which no try guards; imp: how the
\* guarded import of the two model classes ends.  In self_encoder mode
\* reply is what util.dot_score(...)[0] holds: one score for each document.
answer_relevancy_score(predictions, target, model_type, model_name, impUtil, imp, reply, n) ==
    LET i == TryImport(imp, "Exception")
        mt == DefaultModelType(model_type)
        cross == NewBackend("CrossEncoderAnswerRelevancyModel", <<Str(model_name)>>, n)
        self == NewBackend("AnswerRelevancyModel", <<Str(model_name)>>, n)
        docs == Promote(predictions)
    IN  IF impUtil # "ok" THEN Result(<<>>, Raise(impUtil), FALSE)
        ELSE IF model_type \notin {"None", "self_encoder", "cross_encoder"}
        THEN Result(i.events, Raise("AssertionError"), FALSE)
        ELSE IF mt = "cross_encoder"
        THEN IF ~IsStr(predictions)
             THEN Result(i.events, Raise("AssertionError"), FALSE)
             ELSE IF ~i.bound THEN Unbound(i)
             ELSE Result(i.events \o cross.events
                         \o <<Ev("score", "CrossEncoderAnswerRelevancyModel",
                                 cross.handle, <<predictions, Str(target)>>, <<>>, reply)>>,
                         Return(reply[1]), TRUE)
        ELSE IF ~i.bound THEN Unbound(i)
        ELSE LET evs == i.events \o self.events
                        \o <<Ev("embed", "AnswerRelevancyModel", self.handle,
                                <<Str(target)>>, <<>>, <<>>),
                             Ev("embed", "AnswerRelevancyModel", self.handle,
                                <<docs>>, <<>>, <<>>),
                             Ev("score", "util.dot_score", 0,
                                <<Str(target), docs>>, <<>>, reply)>>
             IN  IF reply = <<>>
                 THEN Result(evs, Raise("IndexError"), TRUE)
                 ELSE Result(evs, Return(reply[1]), TRUE)

---------------------------------------------------------------------------
(* The calls. *)

\* The number of backend instances a call constructed.
Constructions(evs) == Cardinality({k \in 1..Len(evs) : evs[k].kind = "construct"})

\* No call is in progress and another may be made.
Ready == pc = "idle" /\ nCalls < MaxCalls

\* A call of classmethod `name` with arguments and environment `inp`, which
\* amounts to r, is made and ends.
Call(name, inp, r) ==
    /\ pc' = "returned"
    /\ op' = name
    /\ input' = inp
    /\ events' = r.events
    /\ outcome' = r.outcome
    /\ nCalls' = nCalls + 1
    /\ nConstructed' = nConstructed + Constructions(r.events)
    /\ nAcquired' = nAcquired + (IF r.acquired THEN 1 ELSE 0)

\* The number of elements of a string-or-list argument once it is a list.
Count(x) == IF IsStr(x) THEN 1 ELSE Len(x.v)

RougeScore ==
    /\ Ready
    /\ \E target \in {"t1"}, prediction \in Texts,
       score_type \in RougeTypes \cup {"rouge5"}, s \in {0, 1} :
        Call("rouge_score",
             [target |-> target, prediction |-> prediction,
              score_type |-> score_type, reply |-> <<s>>],
             rouge_score(target, prediction, score_type, <<s>>, nConstructed))

SentenceBleuScore ==
    /\ Ready
    /\ \E references \in StrOrList, prediction \in {"t1"},
       bleu_type \in BleuTypes \cup {"bleu5"}, s \in {0, 1} :
        Call("sentence_bleu_score",
             [references |-> references, prediction |-> prediction,
              bleu_type |-> bleu_type, reply |-> <<s>>],
             sentence_bleu_score(references, prediction, bleu_type, <<s>>))

ExactMatchScore ==
    /\ Ready
    /\ \E target \in Strings, prediction \in Strings :
        Call("exact_match_score",
             [target |-> target, prediction |-> prediction],
             exact_match_score(target, prediction))

QuasiExactMatchScore ==
    /\ Ready
    /\ \E target \in Strings, prediction \in Strings :
        Call("quasi_exact_match_score",
             [target |-> target, prediction |-> prediction],
             quasi_exact_match_score(target, prediction))

BertScore ==
    /\ Ready
    /\ \E references \in StrOrList, predictions \in StrOrList, model \in ModelNames,
       imp \in ImportOutcomes, cuda \in BOOLEAN, reply \in BertReplies :
        Call("bert_score",
             [references |-> references, predictions |-> predictions,
              model |-> model, imp |-> imp, cuda |-> cuda, reply |-> reply],
             bert_score(references, predictions, model, imp, cuda, reply, nConstructed))

FaithfulnessScore ==
    /\ Ready
    /\ \E target \in {"t1"}, prediction \in Texts, model \in ModelNames,
       imp \in ImportOutcomes, s \in BackendScores :
        Call("faithfulness_score",
             [target |-> target, prediction |-> prediction, model |-> model,
              imp |-> imp, reply |-> <<s>>],
             faithfulness_score(target, prediction, model, imp, <<s>>, nConstructed))

HallucinationScore ==
    /\ Ready
    /\ \E source \in {"t1"}, prediction \in Texts, model \in ModelNames,
       imp \in ImportOutcomes, s \in BackendScores :
        Call("hallucination_score",
             [source |-> source, prediction |-> prediction, model |-> model,
              imp |-> imp, reply |-> <<s>>],
             hallucination_score(source, prediction, model, imp, <<s>>, nConstructed))

PIIScore ==
    /\ Ready
    /\ Call("PII_score", [target |-> "t1", prediction |-> "t2"], PII_score)

NeuralToxicScore ==
    /\ Ready
    /\ \E prediction \in Texts, model \in ModelNames,
       imp \in ImportOutcomes, s \in BackendScores :
        Call("neural_toxic_score",
             [prediction |-> prediction, model |-> model, imp |-> imp, reply |-> <<s>>],
             neural_toxic_score(prediction, model, imp, <<s>>, nConstructed))

AnswerRelevancyScore ==
    /\ Ready
    /\ \E predictions \in StrOrList, target \in {"t1"}, model_type \in ModelTypes,
       model_name \in ModelNames, impUtil \in {"ok", "ModuleNotFoundError"},
       imp \in ImportOutcomes :
        \E reply \in [1..Count(predictions) -> BackendScores] :
            Call("answer_relevancy_score",
                 [predictions |-> predictions, target |-> target,
                  model_type |-> model_type, model_name |-> model_name,
                  impUtil |-> impUtil, imp |-> imp, reply |-> reply],
                 answer_relevancy_score(predictions, target, model_type, model_name,
                                        impUtil, imp, reply, nConstructed))

FactualConsistencyScore ==
    /\ Ready
    /\ \E contexts \in StrOrList, prediction \in {"t1"}, model \in ModelNames,
       imp \in ImportOutcomes :
        \E replies \in [1..Count(contexts) -> BackendScores] :
            Call("factual_consistency_score",
                 [contexts |-> contexts, prediction |-> prediction, model |-> model,
                  imp |-> imp, replies |-> replies],
                 factual_consistency_score(contexts, prediction, model, imp,
                                           replies, nConstructed))

NeuralBiasScore ==
    /\ Ready
    /\ \E text \in Texts, model \in ModelNames,
       imp \in ImportOutcomes, s \in BackendScores :
        Call("neural_bias_score",
             [text |-> text, model |-> model, imp |-> imp, reply |-> <<s>>],
             neural_bias_score(text, model, imp, <<s>>, nConstructed))

\* The caller is done with the call that returned: the call's frame is gone,
\* its local variables with it, and the next call may be made.
NextCall ==
    /\ pc = "returned"
    /\ pc' = "idle"
    /\ op' = "none"
    /\ input' = <<>>
    /\ events' = <<>>
    /\ outcome' = NoOutcome
    /\ UNCHANGED <<nCalls, nConstructed, nAcquired>>

Init ==
    /\ pc = "idle"
    /\ op = "none"
    /\ input = <<>>
    /\ events = <<>>
    /\ outcome = NoOutcome
    /\ nCalls = 0
    /\ nConstructed = 0
    /\ nAcquired = 0

Next ==
    \/ RougeScore
    \/ SentenceBleuScore
    \/ ExactMatchScore
    \/ QuasiExactMatchScore
    \/ BertScore
    \/ FaithfulnessScore
    \/ HallucinationScore
    \/ PIIScore
    \/ NeuralToxicScore
    \/ AnswerRelevancyScore
    \/ FactualConsistencyScore
    \/ NeuralBiasScore
    \/ NextCall

Spec == Init /\ [][Next]_vars

---------------------------------------------------------------------------
(* Properties. *)

\* A call of classmethod `name` has just ended.
Ended(name) == pc = "returned" /\ op = name

\* core is s without its leading and trailing whitespace: s is i spaces,
\* then core, then j spaces, and core neither starts nor ends with one.
IsTrimOf(core, s) ==
    /\ core = <<>> \/ (~IsSpace(core[1]) /\ ~IsSpace(core[Len(core)]))
    /\ \E i \in 0..Len(s), j \in 0..Len(s) :
        /\ Len(s) = i + Len(core) + j
        /\ \A k \in 1..i : IsSpace(s[k])
        /\ \A k \in (i + Len(core) + 1)..Len(s) : IsSpace(s[k])
        /\ \A k \in 1..Len(core) : s[i + k] = core[k]

\* a and b are the same string once trimmed.
TrimmedEqual(a, b) == \E core \in Strings : IsTrimOf(core, a) /\ IsTrimOf(core, b)

\* C1: exact_match_score returns (never raises) 0 or 1; 0 for an empty
\* prediction whatever the target; and for a non-empty prediction 1 exactly
\* when prediction and target are the same string once trimmed.
C1_ExactMatch ==
    Ended("exact_match_score") =>
        /\ outcome.kind = "return"
        /\ outcome.val \in {0, 1}
        /\ input.prediction = <<>> => outcome.val = 0
        /\ input.prediction # <<>> =>
            (outcome.val = 1 <=> TrimmedEqual(input.target, input.prediction))

\* A call whose strings differ, and only by the whitespace around them,
\* returned 1.
C1_Witness ==
    /\ Ended("exact_match_score")
    /\ input.prediction # <<>>
    /\ input.prediction # input.target
    /\ outcome = Return(1)

\* C6, as stated: whenever target and prediction have the same normalized
\* form (they differ at most in case, punctuation or whitespace),
\* quasi_exact_match_score returns 1.
C6_Original ==
    (/\ Ended("quasi_exact_match_score")
     /\ normalize_text(input.target) = normalize_text(input.prediction))
    => outcome = Return(1)

\* C6, amended: whenever target and a non-empty prediction have the same
\* normalized form, quasi_exact_match_score returns 1 (and exact_match_score
\* may return 0 on the same pair: C6_Witness).
C6_QuasiMatchNonEmpty ==
    (/\ Ended("quasi_exact_match_score")
     /\ input.prediction # <<>>
     /\ normalize_text(input.target) = normalize_text(input.prediction))
    => outcome = Return(1)

\* A pair that differs only in case, punctuation or whitespace, on which
\* quasi_exact_match_score returned 1 and exact_match_score returns 0.
C6_Witness ==
    /\ Ended("quasi_exact_match_score")
    /\ input.prediction # <<>>
    /\ input.target # input.prediction
    /\ outcome = Return(1)
    /\ exact_match_score(input.target, input.prediction).outcome = Return(0)

\* The calls (score, embed, tokenize) the call made to methods and functions
\* of its backend, in order.
BackendCalls == SelectSeq(events, LAMBDA e : e.kind \in {"tokenize", "embed", "score"})

\* The scoring calls among them.
ScoreCalls == SelectSeq(events, LAMBDA e : e.kind = "score")

\* C2: factual_consistency_score scores the prediction against each context
\* on its own, and returns the maximum of the scores the backend answered,
\* whatever they are.
C2_MaxOfScores ==
    (/\ Ended("factual_consistency_score")
     /\ outcome.kind = "return"
     /\ Count(input.contexts) > 0)
    => /\ Len(ScoreCalls) = Count(input.contexts)
       /\ \A k \in 1..Len(ScoreCalls) :
            /\ ScoreCalls[k].args = <<Str(Promote(input.contexts).v[k]), Str(input.prediction)>>
            /\ ScoreCalls[k].reply = <<input.replies[k]>>
            /\ ScoreCalls[k].reply[1] <= outcome.val
       /\ \E k \in 1..Len(ScoreCalls) : ScoreCalls[k].reply[1] = outcome.val

\* C8: a call that returns, other than a match score, returns a value the
\* backend answered to one of the call's scoring calls.
C8_NoDefaultScore ==
    (/\ pc = "returned"
     /\ outcome.kind = "return"
     /\ op \notin {"exact_match_score", "quasi_exact_match_score"})
    => \E k \in 1..Len(ScoreCalls) :
         IF op = "bert_score"
         THEN outcome.val = BertShape(ScoreCalls[k].reply)
         ELSE \E j \in 1..Len(ScoreCalls[k].reply) : ScoreCalls[k].reply[j] = outcome.val

\* C9: when bert_score is called with predictions and references that are
\* each a string or a list of at least one string, the candidates and the
\* references it hands to BERTScorer.score have the same length.
C9_SameLength ==
    (/\ Ended("bert_score")
     /\ Count(input.predictions) >= 1
     /\ Count(input.references) >= 1)
    => \A k \in 1..Len(ScoreCalls) :
         PyLen(ScoreCalls[k].args[1]) = PyLen(ScoreCalls[k].args[2])

\* C3: a call of rouge_score, sentence_bleu_score or answer_relevancy_score
\* that ends in AssertionError (an unsupported score_type, bleu_type or
\* model_type, or a list of predictions in cross_encoder mode) has
\* constructed no backend and made no tokenizer, embedding or scoring call.
C3_InvalidArgumentBeforeBackend ==
    (/\ pc = "returned"
     /\ op \in {"rouge_score", "sentence_bleu_score", "answer_relevancy_score"}
     /\ outcome = Raise("AssertionError"))
    => \A k \in 1..Len(events) :
         events[k].kind \notin {"construct", "tokenize", "embed", "score"}

\* rouge_score was called with an unsupported score_type and raised.
C3_Witness ==
    /\ Ended("rouge_score")
    /\ input.score_type \notin RougeTypes
    /\ outcome = Raise("AssertionError")

\* C4: answer_relevancy_score, once sentence_transformers is imported:
\* an unsupported model_type raises AssertionError; with model_type
\* cross_encoder or left out, a list of predictions raises AssertionError
\* and a single string is scored by one call of the cross-encoder model on
\* (prediction, target), whose answer is returned; with model_type
\* self_encoder the cross-encoder model is not used, neither a string nor a
\* list is refused, and a string or non-empty list gets a score.
C4_AnswerRelevancyDispatch ==
    (Ended("answer_relevancy_score") /\ input.impUtil = "ok") =>
        /\ input.model_type \notin {"None", "self_encoder", "cross_encoder"}
            => outcome = Raise("AssertionError")
        /\ (input.model_type \in {"None", "cross_encoder"} /\ ~IsStr(input.predictions))
            => outcome = Raise("AssertionError")
        /\ (/\ input.model_type \in {"None", "cross_encoder"}
            /\ IsStr(input.predictions)
            /\ input.imp = "ok")
            => /\ Len(BackendCalls) = 1
               /\ BackendCalls[1].kind = "score"
               /\ BackendCalls[1].backend = "CrossEncoderAnswerRelevancyModel"
               /\ BackendCalls[1].args = <<input.predictions, Str(input.target)>>
               /\ outcome = Return(BackendCalls[1].reply[1])
        /\ input.model_type = "self_encoder"
            => /\ \A k \in 1..Len(events) :
                    events[k].backend # "CrossEncoderAnswerRelevancyModel"
               /\ outcome # Raise("AssertionError")
               /\ (input.imp = "ok" /\ Count(input.predictions) >= 1)
                    => outcome.kind = "return"

\* With model_type left out, a single string was scored by the
\* cross-encoder model.
C4_Witness ==
    /\ Ended("answer_relevancy_score")
    /\ input.model_type = "None"
    /\ IsStr(input.predictions)
    /\ outcome.kind = "return"
    /\ \E k \in 1..Len(events) :
         events[k].kind = "score" /\ events[k].backend = "CrossEncoderAnswerRelevancyModel"

\* The scores that import their backend when called.
ModelBased ==
    {"bert_score", "faithfulness_score", "hallucination_score", "neural_toxic_score",
     "answer_relevancy_score", "factual_consistency_score", "neural_bias_score"}

\* A model-based call has ended in which an import of its backend failed.
ImportFailed ==
    /\ pc = "returned"
    /\ op \in ModelBased
    /\ \/ input.imp # "ok"
       \/ op = "answer_relevancy_score" /\ input.impUtil # "ok"

Handled ==
    CASE op = "bert_score" -> {"ModuleNotFoundError"}
      [] op \in {"hallucination_score", "neural_toxic_score"} ->
            {"ModuleNotFoundError", "ImportError"}
      [] OTHER -> {"ModuleNotFoundError", "ImportError", "OSError"}

\* The arguments of the answer_relevancy_score call pass its checks.
RelevancyArgsValid ==
    \/ input.model_type = "self_encoder"
    \/ input.model_type \in {"None", "cross_encoder"} /\ IsStr(input.predictions)

SameAs(r) == events = r.events /\ outcome = r.outcome

\* The number of backend instances constructed before the call that has
\* just ended began.
Before == nConstructed - Constructions(events)

\* The one-element list holding the string x.
AsList(x) == List(<<x.v[1]>>)

\* C7: a call given a lone string s for a string-or-list parameter calls
\* its backend with the same arguments, and ends the same way, as the call
\* given [s] instead, everything else equal.
C7_LoneStringAsList ==
    /\ (Ended("sentence_bleu_score") /\ IsStr(input.references)) =>
         SameAs(sentence_bleu_score(AsList(input.references), input.prediction,
                                    input.bleu_type, input.reply))
    /\ (Ended("bert_score") /\ IsStr(input.references)) =>
         SameAs(bert_score(AsList(input.references), input.predictions, input.model,
                           input.imp, input.cuda, input.reply, Before))
    /\ (Ended("bert_score") /\ IsStr(input.predictions)) =>
         SameAs(bert_score(input.references, AsList(input.predictions), input.model,
                           input.imp, input.cuda, input.reply, Before))
    /\ (Ended("factual_consistency_score") /\ IsStr(input.contexts)) =>
         SameAs(factual_consistency_score(AsList(input.contexts), input.prediction,
                                          input.model, input.imp, input.replies, Before))
    /\ (/\ Ended("answer_relevancy_score")
        /\ input.model_type = "self_encoder"
        /\ IsStr(input.predictions)) =>
         SameAs(answer_relevancy_score(AsList(input.predictions), input.target,
                                       input.model_type, input.model_name,
                                       input.impUtil, input.imp, input.reply, Before))

\* bert_score was called with a lone string for both references and
\* predictions, and handed BERTScorer.score two one-element lists.
C7_Witness ==
    /\ Ended("bert_score")
    /\ IsStr(input.references)
    /\ IsStr(input.predictions)
    /\ outcome.kind = "return"
    /\ \E k \in 1..Len(events) :
         /\ events[k].kind = "score"
         /\ events[k].args = <<AsList(input.predictions), AsList(input.references)>>

\* C10: every call that invokes a backend constructor constructs an
\* instance no earlier call constructed, every method call of a call is on
\* an instance that same call constructed before, and there have been as
\* many constructions as calls that invoked a constructor.
C10_FreshBackendPerCall ==
    /\ nConstructed = nAcquired
    /\ pc = "returned" =>
         \A k \in 1..Len(events) :
            /\ events[k].kind = "construct" => events[k].h > Before
            /\ (events[k].kind # "construct" /\ events[k].h # 0) =>
                 \E j \in 1..(k - 1) :
                    events[j].kind = "construct" /\ events[j].h = events[k].h

\* A second model-based call constructed a second instance and scored
\* with it.
C10_Witness ==
    /\ pc = "returned"
    /\ nCalls = 2
    /\ nAcquired = 2
    /\ nConstructed = 2
    /\ \E k \in 1..Len(events) : events[k].kind = "score" /\ events[k].h = 2

===========================================================================
